---- MODULE Spec2Model ----
(***************************************************************************)
(* A model of ihm/metadata.py: the metadata parsers of python-ihm.         *)
(*                                                                         *)
(*   MRCParser   scans the header of an EM density map for an EMDB id.     *)
(*   PDBParser   classifies a PDB file by its first line, extracts the     *)
(*               dataset, and for comparative models the templates.        *)
(*                                                                         *)
(* Text is modelled as sequences of tokens: a line is a record whose       *)
(* `head` is the literal text the line starts with and whose other fields  *)
(* are what the regular expressions of the source capture from it.         *)
(* Python's None is the empty tuple; an optional value x is <<x>>.         *)
(***************************************************************************)
EXTENDS Integers, Sequences, FiniteSets, TLC

VARIABLES
    \* ---- MRCParser
    raw,            \* the bytes fh.read(4) returns at offset 220
    labels,         \* the 80-byte records that follow the count field in the file
    mpc,            \* position of MRCParser.parse_file
    num_labels,     \* min of the two interpretations of raw
    reads,          \* number of fh.read(80) calls made so far
    emdb,           \* result of _get_emdb
    mret,           \* what MRCParser.parse_file returns
    \* ---- PDBParser
    file,           \* the lines of the PDB file
    pc,             \* position of PDBParser.parse_file
    ret,            \* the dict parse_file builds
    datasets,       \* every Dataset object created, addressed by its index
    template_path_map,
    alnfile,
    template_info,
    templates,      \* the list comprehension of _get_templates, built so far
    lineno,         \* number of lines the loop of _get_templates has consumed
    returned        \* what the caller of parse_file receives

mvars == <<raw, labels, mpc, num_labels, reads, emdb, mret>>
pvars == <<file, pc, ret, datasets, template_path_map, alnfile,
           template_info, templates, lineno, returned>>
vars == <<raw, labels, mpc, num_labels, reads, emdb, mret,
          file, pc, ret, datasets, template_path_map, alnfile,
          template_info, templates, lineno, returned>>

None == <<>>
Some(x) == <<x>>

(***************************************************************************)
(* Bounds of the model.                                                    *)
(***************************************************************************)
MaxLowByte == 2      \* the bytes of the count field are 0..MaxLowByte or 255
MaxChunks == 12      \* 80-byte records present in a map file after offset 224
MaxReads == 12       \* label reads followed in one scan
MaxLines == 3        \* lines of a PDB file

(***************************************************************************)
(* MRCParser                                                               *)
(***************************************************************************)
\* The MRC format stores at most 10 labels of 80 bytes (offsets 224..1023).
LabelCapacity == 10

ByteSet == (0 .. MaxLowByte) \cup {255}

\* struct.unpack_from('>i', b) and ('<i', b): signed 32-bit, two's complement
SignedByte(b) == IF b >= 128 THEN b - 256 ELSE b
unpack_big(b) == SignedByte(b[1]) * 16777216 + b[2] * 65536 + b[3] * 256 + b[4]
unpack_little(b) == SignedByte(b[4]) * 16777216 + b[3] * 65536 + b[2] * 256 + b[1]

\* the larger of the two, in place of the smaller
min_larger(a, b) == IF a >= b THEN a ELSE b

min(a, b) == IF a <= b THEN a ELSE b

\* fh.read(80) for the i-th record after the count field: short at end of file
read_label(i) == IF i <= Len(labels) THEN labels[i] ELSE None

\* r.search(label): a label is None when it holds no
\* 'EMDATABANK.org ... EMD-nnnn' marker, else <<code>>
search(label) == label

EmdbCodes == {"EMD-1234", "EMD-5678"}

\* Map files: a count field of up to 4 bytes (fewer when the file ends before
\* offset 224) and, after a whole count field, up to MaxChunks records of
\* which at most one carries the accession marker.
InitMRC ==
    /\ \E n \in 0 .. 4 : raw \in [1 .. n -> ByteSet]
    /\ \E n \in 0 .. MaxChunks, at \in 0 .. MaxChunks, c \in EmdbCodes :
          /\ at <= n
          /\ at = 0 => c = "EMD-1234"
          /\ Len(raw) < 4 => n = 0
          /\ labels = [i \in 1 .. n |-> IF i = at THEN Some(c) ELSE None]
    /\ mpc = "seek"
    /\ num_labels = 0
    /\ reads = 0
    /\ emdb = None
    /\ mret = None
    /\ file = <<>>
    /\ pc = "idle"
    /\ ret = None
    /\ datasets = <<>>
    /\ template_path_map = <<>>
    /\ alnfile = None
    /\ template_info = <<>>
    /\ templates = <<>>
    /\ lineno = 0
    /\ returned = None

\* lines 81-88: seek, read the count field, unpack it both ways, take the min.
\* struct.unpack_from raises struct.error on a buffer of fewer than 4 bytes.
UnpackCount ==
    /\ mpc = "seek"
    /\ IF Len(raw) < 4
       THEN /\ mpc' = "struct_error"
            /\ UNCHANGED num_labels
       ELSE /\ num_labels' = min(unpack_big(raw), unpack_little(raw))
            /\ mpc' = "loop"
    /\ UNCHANGED <<raw, labels, reads, emdb, mret>>
    /\ UNCHANGED pvars

\* lines 89-96: one iteration of `for i in range(num_labels)`
ReadLabel ==
    /\ mpc = "loop"
    /\ reads < num_labels
    /\ reads < MaxReads
    /\ reads' = reads + 1
    /\ LET m == search(read_label(reads + 1))
       IN IF m # None
          THEN emdb' = m /\ mpc' = "scanned"
          ELSE UNCHANGED <<emdb, mpc>>
    /\ UNCHANGED <<raw, labels, num_labels, mret>>
    /\ UNCHANGED pvars

\* the loop is exhausted: _get_emdb falls off its end and returns None
LoopEnd ==
    /\ mpc = "loop"
    /\ reads >= num_labels
    /\ mpc' = "scanned"
    /\ UNCHANGED <<raw, labels, num_labels, reads, emdb, mret>>
    /\ UNCHANGED pvars

EmDetails == <<"Electron microscopy density map">>

EMDBLocation(code, version, details) ==
    [kind |-> "EMDB", db_code |-> code, version |-> version, path |-> None,
     repo |-> None, details |-> details]

InputFileLocation(path, repo, details) ==
    [kind |-> "file", db_code |-> None, version |-> None, path |-> path,
     repo |-> repo, details |-> details]

MapName == <<"dir", "map.mrc">>
EmdbTitles == {<<>>, <<"A density map">>}

\* lines 50-59: MRCParser.parse_file after _get_emdb; _get_emdb_info asks
\* the EMDB web service for a release date and a title
MRCReturn ==
    /\ mpc = "scanned"
    /\ mpc' = "done"
    /\ IF emdb # None
       THEN \E details \in EmdbTitles :
               mret' = Some([kind |-> "EMDensityDataset",
                             location |-> EMDBLocation(emdb[1], Some(<<"2020-01-12">>),
                                             IF details # <<>> THEN Some(details)
                                             ELSE Some(EmDetails)),
                             parents |-> <<>>])
       ELSE mret' = Some([kind |-> "EMDensityDataset",
                          location |-> InputFileLocation(MapName, None, Some(EmDetails)),
                          parents |-> <<>>])
    /\ UNCHANGED <<raw, labels, num_labels, reads, emdb>>
    /\ UNCHANGED pvars

NextMRC == UnpackCount \/ ReadLabel \/ LoopEnd \/ MRCReturn

SpecMRC == InitMRC /\ [][NextMRC]_vars

(***************************************************************************)
(* PDBParser: text                                                         *)
(***************************************************************************)
Digits == {"0", "1", "2", "3", "4", "5", "6", "7", "8", "9"}
LowerCase == <<"a", "b", "c", "l", "m", "n", "o", "p", "t", "x", "y", "z">>
UpperCase == <<"A", "B", "C", "L", "M", "N", "O", "P", "T", "X", "Y", "Z">>
Letters == {LowerCase[i] : i \in DOMAIN LowerCase} \cup {UpperCase[i] : i \in DOMAIN UpperCase}

\* str.upper() on one character and on a string
upper_char(c) ==
    IF \E i \in DOMAIN LowerCase : LowerCase[i] = c
    THEN UpperCase[CHOOSE i \in DOMAIN LowerCase : LowerCase[i] = c]
    ELSE c
upper(s) == [i \in DOMAIN s |-> upper_char(s[i])]

\* re.match('(\d[a-zA-Z0-9]{3})[a-zA-Z](_.*)?$', template_code)
canonical_match(code) ==
    /\ Len(code) >= 5
    /\ code[1] \in Digits
    /\ \A i \in 2 .. 4 : code[i] \in Digits \cup Letters
    /\ code[5] \in Letters
    /\ Len(code) > 5 => code[6] = "_"

\* str.rstrip() on a text of tokens, " " being any run of whitespace
RECURSIVE rstrip(_)
rstrip(text) ==
    IF text # <<>> /\ text[Len(text)] = " "
    THEN rstrip(SubSeq(text, 1, Len(text) - 1))
    ELSE text

\* line.startswith(prefix)
startswith(line, prefix) ==
    /\ Len(prefix) <= Len(line.head)
    /\ SubSeq(line.head, 1, Len(prefix)) = prefix

\* the literal prefixes parse_file, _parse_pdb_records, _parse_details and
\* _get_templates test lines against
HEADER == <<"HEADER">>
DERIVED_FROM_PDB == <<"EXPDTA", "DERIVED FROM", "PDB:">>
DERIVED_FROM_MODEL == <<"EXPDTA", "DERIVED FROM", "COMPARATIVE MODEL, DOI:">>
MODELLER == <<"EXPDTA", "THEORETICAL MODEL, MODELLER">>
PHYRE == <<"REMARK  99", "Chain ID :">>
TITLE == <<"TITLE">>
HELIX == <<"HELIX">>
ATOM == <<"ATOM">>
alnfilere == <<"REMARK   6", "ALIGNMENT:">>
tmppathre == <<"REMARK   6", "TEMPLATE", "PATH">>
tmpre == <<"REMARK   6", "TEMPLATE", ":">>

\* re.match of one of the three REMARK 6 grammars: the literal part is the
\* head of the line, the groups are its fields
match(re, line) == startswith(line, re)

\* util._get_relative_path(reference, path): an absolute path as it is,
\* a relative one joined to the directory of the reference
get_relative_path(reference, path) ==
    IF path # <<>> /\ path[1] = "/"
    THEN path
    ELSE SubSeq(reference, 1, Len(reference) - 1) \o path

(***************************************************************************)
(* PDBParser: the files explored                                           *)
(***************************************************************************)
Line(head, text, code, path, tr, sr) ==
    [head |-> head, text |-> text, code |-> code, path |-> path,
     tr |-> tr, sr |-> sr, asym |-> "A", ident |-> 45]

Plain(head) == Line(head, <<>>, <<>>, <<>>, <<0, 0>>, <<0, 0>>)

EmptyLine == Plain(<<>>)

Code1ABC == <<"1", "A", "B", "C">>
Code1xyzA == <<"1", "x", "y", "z", "A">>
Code1abcB2 == <<"1", "a", "b", "c", "B", "_", "2">>
CodeTmpl == <<"t", "m", "p", "l">>
CodeNope == <<"1", "x", "y", "z">>

\* lines that stand first in the files of each dialect
DialectLines ==
    { Line(HEADER, <<"12-JAN-20">>, Code1ABC, <<>>, <<0, 0>>, <<0, 0>>),
      Line(DERIVED_FROM_PDB, <<>>, Code1ABC, <<>>, <<0, 0>>, <<0, 0>>),
      Line(DERIVED_FROM_MODEL, <<>>, <<"1", "0", ".", "5", "/", "z">>, <<>>, <<0, 0>>, <<0, 0>>),
      Line(MODELLER, <<"9.1">>, <<>>, <<>>, <<0, 0>>, <<0, 0>>),
      Plain(PHYRE),
      Plain(<<"EXPDTA", "DERIVED FROM">>) }

HeaderLines ==
    { Line(TITLE, <<"A SAMPLE", " ">>, <<>>, <<>>, <<0, 0>>, <<0, 0>>),
      Line(TITLE, <<" ">>, <<>>, <<>>, <<0, 0>>, <<0, 0>>),
      Plain(HELIX),
      Plain(ATOM),
      Line(alnfilere, <<>>, <<>>, <<"aln1.ali">>, <<0, 0>>, <<0, 0>>),
      Line(alnfilere, <<>>, <<>>, <<"/", "aln2.ali">>, <<0, 0>>, <<0, 0>>),
      Line(tmppathre, <<>>, CodeTmpl, <<"t1.pdb">>, <<0, 0>>, <<0, 0>>),
      Line(tmppathre, <<>>, CodeTmpl, <<"/", "t2.pdb">>, <<0, 0>>, <<0, 0>>),
      Line(tmppathre, <<>>, Code1xyzA, <<"t3.pdb">>, <<0, 0>>, <<0, 0>>),
      Line(tmpre, <<>>, Code1xyzA, <<>>, <<10, 120>>, <<5, 115>>),
      Line(tmpre, <<>>, CodeTmpl, <<>>, <<1, 111>>, <<5, 115>>),
      Line(tmpre, <<>>, Code1abcB2, <<>>, <<3, 90>>, <<1, 120>>),
      Line(tmpre, <<>>, CodeNope, <<>>, <<2, 17>>, <<5, 20>>) }

FirstLines == DialectLines \cup HeaderLines
BodyLines == HeaderLines \cup {Plain(PHYRE)}

\* the empty file, or a first line and up to MaxLines - 1 more lines
IsFile(f) ==
    \/ f = <<>>
    \/ \E n \in 0 .. MaxLines - 1 :
          \E first \in FirstLines, body \in [1 .. n -> BodyLines] : f = <<first>> \o body

pdbname == <<"dir", "model.pdb">>

(***************************************************************************)
(* PDBParser: locations, datasets, templates                               *)
(***************************************************************************)
PDBLocation(db_code, version, details) ==
    [kind |-> "PDB", db_code |-> db_code, version |-> version, path |-> None,
     repo |-> None, details |-> details]

\* dataset.PDBDataset(l), dataset.ComparativeModelDataset(l): no parents yet
Dataset(kind, l) == [kind |-> kind, location |-> l, parents |-> <<>>]

\* startmodel.Template(...) of _handle_template
Template(d, info, aln) ==
    [dataset |-> d, asym_id |-> info.asym, seq_id_range |-> info.sr,
     template_seq_id_range |-> info.tr, sequence_identity |-> info.ident,
     alignment_file |-> aln]

\* tuple comparison of two seq_id_range keys, a <= b
TupleLeq(a, b) == a[1] < b[1] \/ (a[1] = b[1] /\ a[2] <= b[2])

\* operator.attrgetter('seq_id_range')
sort_key(t) == t.seq_id_range

\* a sort that puts an element before the elements of equal key
RECURSIVE sorted_ties_reversed(_)
sorted_ties_reversed(ts) ==
    IF ts = <<>> THEN <<>>
    ELSE LET front == sorted_ties_reversed(SubSeq(ts, 1, Len(ts) - 1))
             t == ts[Len(ts)]
             k == Cardinality({i \in DOMAIN front :
                                  /\ TupleLeq(sort_key(front[i]), sort_key(t))
                                  /\ sort_key(front[i]) # sort_key(t)})
         IN SubSeq(front, 1, k) \o <<t>> \o SubSeq(front, k + 1, Len(front))

\* sorted(templates, key=...): a stable sort; each element goes after the
\* elements already placed whose key is not greater
RECURSIVE sorted(_)
sorted(ts) ==
    IF ts = <<>> THEN <<>>
    ELSE LET front == sorted(SubSeq(ts, 1, Len(ts) - 1))
             t == ts[Len(ts)]
             k == Cardinality({i \in DOMAIN front : TupleLeq(sort_key(front[i]), sort_key(t))})
         IN SubSeq(front, 1, k) \o <<t>> \o SubSeq(front, k + 1, Len(front))

\* fh.readline() of parse_file: '' for an empty file
first_line == IF file = <<>> THEN EmptyLine ELSE file[1]

\* location.InputFileLocation(filename, details="Starting model structure")
local_file == InputFileLocation(pdbname, None, Some(<<"Starting model structure">>))

\* the if/elif chain of parse_file
dialect(line) ==
    IF startswith(line, HEADER) THEN "official"
    ELSE IF startswith(line, DERIVED_FROM_PDB) THEN "derived_from_pdb"
    ELSE IF startswith(line, DERIVED_FROM_MODEL) THEN "derived_from_model"
    ELSE IF startswith(line, MODELLER) THEN "modeller"
    ELSE IF startswith(line, PHYRE) THEN "phyre"
    ELSE "unknown"

\* _parse_pdb_records: the TITLE text of every remaining line, and the HELIX lines
RECURSIVE pdb_records_details(_)
pdb_records_details(lines) ==
    IF lines = <<>> THEN <<>>
    ELSE IF startswith(Head(lines), TITLE)
         THEN rstrip(Head(lines).text) \o pdb_records_details(Tail(lines))
         ELSE pdb_records_details(Tail(lines))

RECURSIVE pdb_records_metadata(_)
pdb_records_metadata(lines) ==
    IF lines = <<>> THEN <<>>
    ELSE IF ~startswith(Head(lines), TITLE) /\ startswith(Head(lines), HELIX)
         THEN <<Head(lines)>> \o pdb_records_metadata(Tail(lines))
         ELSE pdb_records_metadata(Tail(lines))

parse_pdb_records(lines, first) ==
    LET details == pdb_records_details(lines)
    IN [version |-> rstrip(first.text),
        details |-> IF details # <<>> THEN Some(details) ELSE None,
        metadata |-> pdb_records_metadata(lines)]

\* _parse_details: the TITLE text up to the first ATOM line
RECURSIVE parse_details(_)
parse_details(lines) ==
    IF lines = <<>> THEN <<>>
    ELSE IF startswith(Head(lines), TITLE)
         THEN rstrip(Head(lines).text) \o parse_details(Tail(lines))
         ELSE IF startswith(Head(lines), ATOM) THEN <<>>
         ELSE parse_details(Tail(lines))

\* ret = {'templates':[], 'software':{}, 'metadata':[]}; dataset 0 is a missing key
NewRet == [templates |-> <<>>, software |-> {}, metadata |-> <<>>, dataset |-> 0]

\* the lines left in fh after readline()
rest == IF file = <<>> THEN <<>> ELSE Tail(file)

InitPDB ==
    /\ IsFile(file)
    /\ pc = "start"
    /\ ret = None
    /\ datasets = <<>>
    /\ template_path_map = <<>>
    /\ alnfile = None
    /\ template_info = <<>>
    /\ templates = <<>>
    /\ lineno = 0
    /\ returned = None
    /\ raw = <<>>
    /\ labels = <<>>
    /\ mpc = "idle"
    /\ num_labels = 0
    /\ reads = 0
    /\ emdb = None
    /\ mret = None

\* the dataset parse_file has put in ret
target_dataset == ret[1].dataset

ParseOfficialPdb ==
    /\ pc = "start"
    /\ dialect(first_line) = "official"
    /\ LET r == parse_pdb_records(rest, first_line)
           l == PDBLocation(rstrip(first_line.code), Some(r.version), r.details)
       IN /\ datasets' = <<Dataset("PDBDataset", l)>>
          /\ ret' = Some([NewRet EXCEPT !.metadata = r.metadata, !.dataset = 1])
    /\ returned' = ret'
    /\ pc' = "done"
    /\ UNCHANGED <<file, template_path_map, alnfile, template_info, templates, lineno>>
    /\ UNCHANGED mvars

ParseDerivedFromPdb ==
    /\ pc = "start"
    /\ dialect(first_line) = "derived_from_pdb"
    /\ LET l == [local_file EXCEPT !.details = Some(parse_details(rest))]
           db_code == rstrip(first_line.code)
           d == Dataset("PDBDataset", l)
           parent == Dataset("PDBDataset", PDBLocation(db_code, None, None))
       IN datasets' = <<[d EXCEPT !.parents = Append(@, 2)], parent>>
    /\ ret' = Some([NewRet EXCEPT !.dataset = 1])
    /\ returned' = ret'
    /\ pc' = "done"
    /\ UNCHANGED <<file, template_path_map, alnfile, template_info, templates, lineno>>
    /\ UNCHANGED mvars

ParseDerivedFromModel ==
    /\ pc = "start"
    /\ dialect(first_line) = "derived_from_model"
    /\ LET l == [local_file EXCEPT !.details = Some(parse_details(rest))]
           d == Dataset("ComparativeModelDataset", l)
           repo == Some(rstrip(first_line.code))
           orig_loc == InputFileLocation(<<".">>, repo,
                           Some(<<"Starting comparative model structure">>))
           parent == Dataset("ComparativeModelDataset", orig_loc)
       IN datasets' = <<[d EXCEPT !.parents = Append(@, 2)], parent>>
    /\ ret' = Some([NewRet EXCEPT !.dataset = 1])
    /\ returned' = ret'
    /\ pc' = "done"
    /\ UNCHANGED <<file, template_path_map, alnfile, template_info, templates, lineno>>
    /\ UNCHANGED mvars

\* _handle_comparative_model up to the open() of _get_templates
handle_comparative_model(software) ==
    /\ datasets' = <<Dataset("ComparativeModelDataset", local_file)>>
    /\ ret' = Some([NewRet EXCEPT !.software = software, !.dataset = 1])
    /\ template_path_map' = <<>>
    /\ alnfile' = None
    /\ template_info' = <<>>
    /\ templates' = <<>>
    /\ lineno' = 0
    /\ pc' = "scan"
    /\ UNCHANGED <<file, returned>>
    /\ UNCHANGED mvars

ParseModellerModel ==
    /\ pc = "start"
    /\ dialect(first_line) = "modeller"
    /\ handle_comparative_model({<<"modeller", first_line.text>>})

ParsePhyreModel ==
    /\ pc = "start"
    /\ dialect(first_line) = "phyre"
    /\ handle_comparative_model({<<"phyre2", <<"?">>>>})

\* an unrecognized first line rejected outright
ParseUnknownModel_rejects ==
    /\ pc = "start"
    /\ dialect(first_line) = "unknown"
    /\ pc' = "rejected"
    /\ UNCHANGED <<file, ret, datasets, template_path_map, alnfile, template_info,
                   templates, lineno, returned>>
    /\ UNCHANGED mvars

ParseUnknownModel ==
    /\ pc = "start"
    /\ dialect(first_line) = "unknown"
    /\ handle_comparative_model({})

(***************************************************************************)
(* PDBParser._get_templates and _handle_template                           *)
(***************************************************************************)
\* template_path_map[code] = path
map_set(map, code, path) ==
    [c \in DOMAIN map \cup {code} |-> IF c = code THEN path ELSE map[c]]

\* the body of `for line in fh` for one header line: acc holds the three
\* accumulators template_path_map, alnfile and template_info
scan_line(acc, line) ==
    [map |-> IF match(tmppathre, line)
             THEN map_set(acc.map, line.code, get_relative_path(pdbname, line.path))
             ELSE acc.map,
     aln |-> IF match(alnfilere, line)
             THEN Some(InputFileLocation(get_relative_path(pdbname, line.path), None,
                           Some(<<"Alignment for starting comparative model">>)))
             ELSE acc.aln,
     info |-> IF match(tmpre, line) THEN Append(acc.info, line) ELSE acc.info]

\* a lookup that falls back on the code itself as a path when the table
\* has no entry
template_location_lenient(info, map) ==
    IF canonical_match(info.code)
    THEN Some(PDBLocation(upper(SubSeq(info.code, 1, 4)), None, None))
    ELSE Some(InputFileLocation(IF info.code \in DOMAIN map THEN map[info.code]
                                ELSE info.code, None,
                  Some(<<"Template for comparative modeling">>)))

\* a lookup that consults the table before the shape of the code
template_location_table_first(info, map) ==
    IF info.code \in DOMAIN map
    THEN Some(InputFileLocation(map[info.code], None,
                  Some(<<"Template for comparative modeling">>)))
    ELSE IF canonical_match(info.code)
         THEN Some(PDBLocation(upper(SubSeq(info.code, 1, 4)), None, None))
         ELSE None

\* the location _handle_template gives the dataset of a template, or None
\* where template_path_map[template_code] raises KeyError
template_location(info, map) ==
    IF canonical_match(info.code)
    THEN Some(PDBLocation(upper(SubSeq(info.code, 1, 4)), None, None))
    ELSE IF info.code \in DOMAIN map
         THEN Some(InputFileLocation(map[info.code], None,
                       Some(<<"Template for comparative modeling">>)))
         ELSE None

\* a loop that only the end of the file ends
header_end_eof(lines, n) == n = Len(lines)

\* the loop of _get_templates is over after n lines: the file is exhausted
\* or the next line is the first ATOM record
header_end(lines, n) == n = Len(lines) \/ startswith(lines[n + 1], ATOM)

\* the whole loop, from n lines on
RECURSIVE scan(_, _, _)
scan(acc, lines, n) ==
    IF header_end(lines, n) THEN acc
    ELSE scan(scan_line(acc, lines[n + 1]), lines, n + 1)

\* _get_templates as a function of the lines of the file: whether it raises
\* KeyError, and else the sorted templates, each with the location of its
\* dataset in place of the dataset object
get_templates(lines) ==
    LET acc == scan([map |-> <<>>, aln |-> None, info |-> <<>>], lines, 0)
        locs == [i \in DOMAIN acc.info |-> template_location(acc.info[i], acc.map)]
    IN IF \E i \in DOMAIN locs : locs[i] = None
       THEN [error |-> TRUE, templates |-> <<>>]
       ELSE [error |-> FALSE,
             templates |-> sorted([i \in DOMAIN acc.info |->
                                      Template(locs[i][1], acc.info[i], acc.aln)])]

\* the new parent put in front of the list
append_parent_front(parents, d) == <<d>> \o parents

\* target_dataset.parents.append(d)
append_parent(parents, d) == Append(parents, d)

\* one iteration of the loop of _get_templates (lines 202-218)
ScanLine ==
    /\ pc = "scan"
    /\ IF header_end(file, lineno)
       THEN /\ pc' = "handle"
            /\ UNCHANGED <<template_path_map, alnfile, template_info, lineno>>
       ELSE LET acc == scan_line([map |-> template_path_map, aln |-> alnfile,
                                  info |-> template_info], file[lineno + 1])
            IN /\ template_path_map' = acc.map
               /\ alnfile' = acc.aln
               /\ template_info' = acc.info
               /\ lineno' = lineno + 1
               /\ pc' = pc
    /\ UNCHANGED <<file, ret, datasets, templates, returned>>
    /\ UNCHANGED mvars

\* _handle_template for the next queued match (lines 220-221, 225-253);
\* a KeyError leaves parse_file, which returns nothing
HandleTemplate ==
    /\ pc = "handle"
    /\ Len(templates) < Len(template_info)
    /\ LET info == template_info[Len(templates) + 1]
           l == template_location(info, template_path_map)
           d == Len(datasets) + 1
       IN IF l = None
          THEN /\ pc' = "KeyError"
               /\ UNCHANGED <<datasets, templates>>
          ELSE /\ datasets' = [Append(datasets, Dataset("PDBDataset", l[1]))
                                  EXCEPT ![target_dataset].parents = append_parent(@, d)]
               /\ templates' = Append(templates, Template(d, info, alnfile))
               /\ pc' = pc
    /\ UNCHANGED <<file, ret, template_path_map, alnfile, template_info, lineno, returned>>
    /\ UNCHANGED mvars

\* line 223, line 189 and line 140: sort, store in ret, return ret
SortAndReturn ==
    /\ pc = "handle"
    /\ Len(templates) = Len(template_info)
    /\ ret' = Some([ret[1] EXCEPT !.templates = sorted(templates)])
    /\ returned' = ret'
    /\ pc' = "done"
    /\ UNCHANGED <<file, datasets, template_path_map, alnfile, template_info, templates, lineno>>
    /\ UNCHANGED mvars

NextPDB ==
    \/ ParseOfficialPdb
    \/ ParseDerivedFromPdb
    \/ ParseDerivedFromModel
    \/ ParseModellerModel
    \/ ParsePhyreModel
    \/ ParseUnknownModel
    \/ ScanLine
    \/ HandleTemplate
    \/ SortAndReturn

SpecPDB == InitPDB /\ [][NextPDB]_vars

(***************************************************************************)
(* Properties of MRCParser._get_emdb                                       *)
(***************************************************************************)
CountUnpacked == mpc \in {"loop", "scanned", "done"}
ScanOver == mpc \in {"scanned", "done"}
BigEndian == unpack_big(raw)
LittleEndian == unpack_little(raw)
Implausible(n) == n < 0 \/ n > LabelCapacity

\* the label that ended the scan early, if any, is the first that matches
FirstMatchReturned ==
    emdb # None =>
        /\ reads >= 1
        /\ emdb = read_label(reads)
        /\ \A i \in 1 .. reads - 1 : read_label(i) = None

\* C2 as stated: the label count is the smaller of the big-endian and
\* little-endian signed 32-bit interpretations of the count field, and a scan
\* that no matching label ends early reads exactly that many label records.
C2_ReadsExactlyCount ==
    /\ CountUnpacked =>
          /\ num_labels <= BigEndian
          /\ num_labels <= LittleEndian
          /\ num_labels \in {BigEndian, LittleEndian}
    /\ (ScanOver /\ emdb = None) => reads = num_labels
    /\ FirstMatchReturned

\* C2 amended: the label count is the smaller of the two interpretations; a
\* scan that no matching label ends early reads exactly that many label
\* records when the count is not negative and none when it is negative; it
\* never reads more, and a scan ended early returns the first matching label.
C2_ReadsCountOrNone ==
    /\ CountUnpacked =>
          /\ num_labels <= BigEndian
          /\ num_labels <= LittleEndian
          /\ num_labels \in {BigEndian, LittleEndian}
          /\ reads <= (IF num_labels < 0 THEN 0 ELSE num_labels)
    /\ (ScanOver /\ emdb = None) =>
          reads = (IF num_labels < 0 THEN 0 ELSE num_labels)
    /\ FirstMatchReturned

\* a scan over a count field whose two interpretations differ, the smaller
\* being 2, has read its two labels and found no accession
C2_Witness ==
    /\ mpc = "scanned"
    /\ emdb = None
    /\ BigEndian # LittleEndian
    /\ num_labels = 2
    /\ reads = 2

\* C3: the scanner never reads a label record beyond the label area of the
\* format, and when both interpretations of the count field are implausible
\* (negative or above the label capacity) the scan finds no accession.
C3_ReadsClamped ==
    /\ reads <= LabelCapacity
    /\ (ScanOver /\ Implausible(BigEndian) /\ Implausible(LittleEndian)) => emdb = None

\* C4: no scan ends in a failure because of a read problem: a file too short
\* for the count field, or one that ends before the counted labels, gives
\* the result None.
C4_ShortFileIsAbsent ==
    /\ mpc # "struct_error"
    /\ (ScanOver /\ Len(labels) < reads /\ \A i \in DOMAIN labels : labels[i] = None)
          => emdb = None

(***************************************************************************)
(* Properties of PDBParser                                                 *)
(***************************************************************************)
Comparative == dialect(first_line) \in {"modeller", "phyre", "unknown"}

\* the header of the file: the lines before the first ATOM record
HeaderLen ==
    IF \E i \in DOMAIN file : file[i].head = ATOM
    THEN (CHOOSE i \in DOMAIN file :
             file[i].head = ATOM /\ \A j \in 1 .. i - 1 : file[j].head # ATOM) - 1
    ELSE Len(file)
Header == SubSeq(file, 1, HeaderLen)

IsStat(line) == line.head = tmpre
IsPath(line) == line.head = tmppathre
IsAln(line) == line.head = alnfilere

\* the template-statistics records of the header, in file order
Stats == SelectSeq(Header, IsStat)

\* a code that is not of canonical-accession shape and that no search-path
\* record of the header names
Unresolved(code) ==
    /\ ~canonical_match(code)
    /\ \A i \in DOMAIN Header : IsPath(Header[i]) => Header[i].code # code

KeyLeq(a, b) == a[1] < b[1] \/ (a[1] = b[1] /\ a[2] <= b[2])

Bijections(n) == {f \in [1 .. n -> 1 .. n] : \A i, j \in 1 .. n : f[i] = f[j] => i = j}

C5_UnresolvedCodeFails ==
    /\ (Comparative /\ pc \in {"done", "KeyError"}
           /\ \E i \in DOMAIN Stats : Unresolved(Stats[i].code)) =>
          (pc = "KeyError" /\ returned = None)
    /\ (Comparative /\ pc = "handle" /\ Len(templates) = Len(template_info)) =>
          \A i \in DOMAIN Stats : ~Unresolved(Stats[i].code)
    /\ pc = "KeyError" => returned = None

\* the lookup error was raised after an earlier template had been resolved
C5_Witness ==
    /\ pc = "KeyError"
    /\ Len(templates) >= 1
    /\ returned = None

NoPrefixMatches(line) ==
    /\ ~startswith(line, HEADER)
    /\ ~startswith(line, DERIVED_FROM_PDB)
    /\ ~startswith(line, DERIVED_FROM_MODEL)
    /\ ~startswith(line, MODELLER)
    /\ ~startswith(line, PHYRE)

SoftwareNames == {s[1] : s \in ret[1].software}

\* C6: parse_file dispatches on the literal prefix of the first line, and a
\* first line no prefix matches (the empty first line of an empty file
\* included) is never rejected: it gives a comparative-model dataset for the
\* local file, no software hint, and the templates Template Recovery finds.
C6_DispatchTotal ==
    LET f == first_line
    IN /\ pc \in {"start", "scan", "handle", "done", "KeyError"}
       /\ pc # "start" =>
             /\ Len(datasets) >= 1
             /\ ret # None
             /\ ret[1].dataset = 1
             /\ startswith(f, HEADER) =>
                   (datasets[1].kind = "PDBDataset" /\ datasets[1].location.kind = "PDB"
                    /\ pc = "done" /\ SoftwareNames = {})
             /\ startswith(f, DERIVED_FROM_PDB) =>
                   (datasets[1].kind = "PDBDataset" /\ datasets[1].location.kind = "file"
                    /\ pc = "done" /\ SoftwareNames = {})
             /\ startswith(f, DERIVED_FROM_MODEL) =>
                   (datasets[1].kind = "ComparativeModelDataset"
                    /\ datasets[1].location.kind = "file"
                    /\ pc = "done" /\ SoftwareNames = {})
             /\ startswith(f, MODELLER) =>
                   (datasets[1].kind = "ComparativeModelDataset"
                    /\ datasets[1].location = local_file
                    /\ (pc = "done" => Len(returned[1].templates) = Len(Stats))
                    /\ SoftwareNames = {"modeller"})
             /\ startswith(f, PHYRE) =>
                   (datasets[1].kind = "ComparativeModelDataset"
                    /\ datasets[1].location = local_file
                    /\ (pc = "done" => Len(returned[1].templates) = Len(Stats))
                    /\ SoftwareNames = {"phyre2"})
             /\ NoPrefixMatches(f) =>
                   (datasets[1].kind = "ComparativeModelDataset"
                    /\ datasets[1].location = local_file
                    /\ (pc = "done" => Len(returned[1].templates) = Len(Stats))
                    /\ SoftwareNames = {})
       /\ (pc = "KeyError" /\ NoPrefixMatches(f)) =>
             \E i \in DOMAIN Stats : Unresolved(Stats[i].code)

\* a file whose first line matches no prefix, being itself a statistics
\* record, was returned as a comparative model with its template
C6_Witness ==
    /\ pc = "done"
    /\ NoPrefixMatches(first_line)
    /\ IsStat(first_line)
    /\ returned # None
    /\ Len(returned[1].templates) >= 1
    /\ returned[1].software = {}

\* the empty file was returned as a comparative model without templates
C6_WitnessEmpty == pc = "done" /\ file = <<>> /\ returned # None

\* the search-path record of the header that is the last to name the code
LastPathFor(code) ==
    LET is == {i \in DOMAIN Header : IsPath(Header[i]) /\ Header[i].code = code}
    IN Header[CHOOSE i \in is : \A j \in is : j <= i]

\* the path a search-path record stands for: absolute as written, relative
\* below the directory of the PDB file
TablePath(line) ==
    IF line.path[1] = "/" THEN line.path ELSE <<pdbname[1]>> \o line.path

\* five characters 0-9 a-z A-Z of which the first is a digit and the fifth a
\* letter, then nothing or an underscore and anything
CanonicalShape(code) ==
    /\ Len(code) >= 5
    /\ code[1] \in Digits
    /\ \A i \in 2 .. 4 : code[i] \in Digits \cup Letters
    /\ code[5] \in Letters
    /\ (Len(code) = 5 \/ code[6] = "_")

\* C7: a template whose code is in the search-path table and not of
\* canonical shape gets a file location whose path is the table entry built
\* from its search-path record; a code of canonical shape gets a database
\* location with the uppercased 4-character accession and no path, also when
\* the table holds an entry for the code.
C7_TemplateResolution ==
    \A i \in DOMAIN templates :
        LET code == template_info[i].code
            l == datasets[templates[i].dataset].location
        IN /\ (~CanonicalShape(code) /\ code \in DOMAIN template_path_map) =>
                 /\ l.kind = "file"
                 /\ l.path = template_path_map[code]
                 /\ l.path = TablePath(LastPathFor(code))
           /\ CanonicalShape(code) =>
                 /\ l.kind = "PDB"
                 /\ l.path = None
                 /\ Len(l.db_code) = 4
                 /\ \A k \in 1 .. 4 : l.db_code[k] = upper_char(code[k])
                 /\ \A k \in 1 .. 4 : l.db_code[k] \notin {LowerCase[n] : n \in DOMAIN LowerCase}
                 /\ code = Code1xyzA => l.db_code = <<"1", "X", "Y", "Z">>

\* a template of canonical code was resolved to a database location while
\* the table held an entry for that very code
C7_Witness ==
    \E i \in DOMAIN templates :
        /\ CanonicalShape(template_info[i].code)
        /\ template_info[i].code \in DOMAIN template_path_map
        /\ datasets[templates[i].dataset].location.kind = "PDB"

\* a template of another code was resolved from the table, its search-path
\* record following its statistics record
C7_WitnessTable ==
    \E i \in DOMAIN templates :
        /\ ~CanonicalShape(template_info[i].code)
        /\ datasets[templates[i].dataset].location.kind = "file"
        /\ IsStat(file[1])
        /\ file[1].code = template_info[i].code

DetailsOk(l) == l.details = None \/ l.details[1] # <<>>

\* C8: every location an extraction produces has details None or non-empty
\* text.
C8_DetailsNoneOrText ==
    /\ \A d \in DOMAIN datasets : DetailsOk(datasets[d].location)
    /\ alnfile # None => DetailsOk(alnfile[1])
    /\ \A i \in DOMAIN templates :
          templates[i].alignment_file # None => DetailsOk(templates[i].alignment_file[1])

ParentsOf(d) == {datasets[d].parents[i] : i \in DOMAIN datasets[d].parents}

\* the datasets reached from the set S by following parents, in at most n steps
RECURSIVE ReachedFrom(_, _)
ReachedFrom(S, n) ==
    IF n = 0 THEN S
    ELSE ReachedFrom(S \cup UNION {ParentsOf(d) : d \in S}, n - 1)

AncestorsOf(d) == ReachedFrom(ParentsOf(d), Len(datasets))

ParentGraphOk ==
    /\ \A d \in DOMAIN datasets :
          /\ ParentsOf(d) \subseteq DOMAIN datasets
          /\ d \notin AncestorsOf(d)
    /\ (pc = "done" /\ startswith(first_line, HEADER)) => datasets[1].parents = <<>>
    /\ (pc = "done" /\ dialect(first_line) \in {"derived_from_pdb", "derived_from_model"}) =>
          /\ Len(datasets[1].parents) = 1
          /\ datasets[datasets[1].parents[1]].parents = <<>>
    /\ (pc = "done" /\ Comparative) =>
          LET ps == datasets[returned[1].dataset].parents
          IN /\ Len(ps) = Len(Stats)
             /\ \A i, j \in DOMAIN ps : ps[i] = ps[j] => i = j
             /\ \A i \in DOMAIN ps :
                   /\ ps[i] = templates[i].dataset
                   /\ templates[i].seq_id_range = Stats[i].sr
                   /\ templates[i].template_seq_id_range = Stats[i].tr
                   /\ \E k \in DOMAIN returned[1].templates :
                         returned[1].templates[k] = templates[i]

ParentsOnlyAppended ==
    \A d \in DOMAIN datasets :
        /\ d \in DOMAIN datasets'
        /\ Len(datasets[d].parents) <= Len(datasets'[d].parents)
        /\ SubSeq(datasets'[d].parents, 1, Len(datasets[d].parents)) = datasets[d].parents

\* C9: throughout an extraction pass parents are only appended and no
\* dataset is its own ancestor; at its end the root dataset has no parent for
\* an official record, one for each derived dialect, and for a comparative
\* model with N statistics records the N template datasets in the order of
\* the records in the file, each the dataset of its Template record.
C9_ParentGraph == []ParentGraphOk /\ [][ParentsOnlyAppended]_vars

\* two templates were returned in an order that differs from the order of
\* their datasets among the parents of the root
C9_Witness ==
    /\ pc = "done"
    /\ Comparative
    /\ Len(datasets[1].parents) >= 2
    /\ returned[1].templates[1].dataset # datasets[1].parents[1]

\* what the extraction returned, each template with the location of its dataset
ReturnedView ==
    [i \in DOMAIN returned[1].templates |->
        [returned[1].templates[i] EXCEPT !.dataset = datasets[@].location]]

\* the header reordered by f: position i takes the line that stood at f[i]
Reordered(f) == [i \in DOMAIN Header |-> Header[f[i]]]

KeepsOrder(f, Same(_, _)) ==
    \A i, j \in DOMAIN Header :
        (i < j /\ Same(Header[f[i]], Header[f[j]])) => f[i] < f[j]

BothStats(a, b) == IsStat(a) /\ IsStat(b)
BothAln(a, b) == IsAln(a) /\ IsAln(b)
PathsOfOneCode(a, b) == IsPath(a) /\ IsPath(b) /\ a.code = b.code

SameAsReordered(f) ==
    LET r == get_templates(Reordered(f))
    IN /\ r.error = (pc = "KeyError")
       /\ pc = "done" => r.templates = ReturnedView

\* the alignment record of the header that comes last
LastAln == Header[CHOOSE i \in DOMAIN Header :
                     IsAln(Header[i]) /\ \A j \in DOMAIN Header : IsAln(Header[j]) => j <= i]

AlignmentOnEveryTemplate ==
    pc = "done" =>
        \A i \in DOMAIN returned[1].templates :
            LET a == returned[1].templates[i].alignment_file
            IN IF \E k \in DOMAIN Header : IsAln(Header[k])
               THEN a # None /\ a[1].kind = "file" /\ a[1].path = TablePath(LastAln)
               ELSE a = None

\* C10 as stated: every reordering of the header records that keeps the
\* relative order of the statistics records, the records after the first
\* ATOM record being dropped, gives the same template list (or the same
\* lookup error), and the alignment location is on every template.
C10_AnyReordering ==
    (Comparative /\ pc \in {"done", "KeyError"}) =>
        /\ \A f \in Bijections(HeaderLen) : KeepsOrder(f, BothStats) => SameAsReordered(f)
        /\ AlignmentOnEveryTemplate

\* C10 amended: the same for every reordering that also keeps the relative
\* order of the alignment records and of the search-path records that name
\* the same code, of which the last one read is the one that counts.
C10_OrderKeepingReordering ==
    (Comparative /\ pc \in {"done", "KeyError"}) =>
        /\ \A f \in Bijections(HeaderLen) :
              (KeepsOrder(f, BothStats) /\ KeepsOrder(f, BothAln)
                  /\ KeepsOrder(f, PathsOfOneCode)) => SameAsReordered(f)
        /\ AlignmentOnEveryTemplate

\* a template was returned with the alignment location and a table path
\* although its statistics record stands first in the file, before the
\* alignment record and its search-path record
C10_Witness ==
    /\ pc = "done"
    /\ Comparative
    /\ HeaderLen = 3
    /\ IsStat(file[1])
    /\ \E i \in 2 .. 3 : IsAln(file[i])
    /\ \E i \in 2 .. 3 : IsPath(file[i]) /\ file[i].code = file[1].code
    /\ Len(returned[1].templates) = 1
    /\ returned[1].templates[1].alignment_file # None
    /\ datasets[returned[1].templates[1].dataset].location.kind = "file"

====
